---- MODULE Spec2Model ----
(***************************************************************************)
(* Solo Leveling Fitness API (src/main.py, src/database.py,                *)
(* src/schemas.py) as a state machine.                                     *)
(*                                                                         *)
(* The state is the document store (collections hunter, checkin, workout,  *)
(* quest), the UTC clock, and one slot per request being handled: its      *)
(* payload, its position in the handler, its local variables and its       *)
(* response.  A handler is split at its store calls: every action is the   *)
(* code from one store call (or clock read that matters) up to the next.   *)
(*                                                                         *)
(* Conventions.                                                            *)
(*  - A datetime is modelled by its UTC calendar day (an integer): the     *)
(*    code only ever uses .date() of the datetimes it stores.  The ISO     *)
(*    string of a date is modelled by the same integer (isoformat is       *)
(*    injective and the code only compares these strings for equality).    *)
(*  - Optional values are <<>> (None) or <<v>>.                            *)
(*  - A string that is parsed (user_id) is a sequence of characters.       *)
(*  - created_at / updated_at, name, title, workout_type and description   *)
(*    are written but never read by any handler and are left out.          *)
(***************************************************************************)
EXTENDS Integers, Sequences, FiniteSets, Bags, TLC

VARIABLES
    db,        \* TRUE iff database.db is not None
    now,       \* the UTC clock, in days
    hunter,    \* collection "hunter": sequence of documents, _id = position
    checkin,   \* collection "checkin": bag of documents
    workout,   \* collection "workout": bag of documents
    quest,     \* collection "quest": sequence of documents, _id = position
    pc,        \* per request slot: position in its handler
    req,       \* per request slot: the request being (or last) handled
    loc,       \* per request slot: the handler's local variables
    resp,      \* per request slot: the response of the last finished request
    nreq,      \* number of requests received so far
    eng        \* the level-up loop run on its own (LevelSpec)

store == <<hunter, checkin, workout, quest>>
slots == <<pc, req, loc, resp, nreq>>
vars  == <<db, now, hunter, checkin, workout, quest, pc, req, loc, resp, nreq, eng>>

(***************************************************************************)
(* Bounds of the model.                                                    *)
(***************************************************************************)
NumProcs    == 2     \* request slots (requests in flight at once)
MaxHunters  == 1     \* hunters ever created
MaxDay      == 2     \* the clock runs over days 0..MaxDay
MaxRequests == 2     \* requests received in one behaviour, creations aside
MaxEngLevel == 3     \* LevelSpec: start levels 1..MaxEngLevel
ExpStride   == 20    \* LevelFairSpec: start exp 0, ExpStride, 2 * ExpStride, ...
MinStreak0  == 18    \* CheckinSpec: the hunter starts after no check-in, or
MaxStreak0  == 20    \*   after MinStreak0..MaxStreak0 daily check-ins

Procs == 1..NumProcs
Days  == 0..MaxDay

None    == <<>>
Some(v) == <<v>>

(***************************************************************************)
(* bson.ObjectId as used at main.py:121: a str is accepted iff it has 24   *)
(* characters, all hexadecimal digits; the id is the 12 bytes it denotes,  *)
(* so upper and lower case digits denote the same id.  str(ObjectId) is    *)
(* the lower-case rendering.                                               *)
(***************************************************************************)
OidLen == 24

LowerHex == {"0", "1", "2", "3", "4", "5", "6", "7", "8", "9",
             "a", "b", "c", "d", "e", "f"}
UpperHex == {"A", "B", "C", "D", "E", "F"}

ToLower(c) ==
    CASE c = "A" -> "a" [] c = "B" -> "b" [] c = "C" -> "c"
      [] c = "D" -> "d" [] c = "E" -> "e" [] c = "F" -> "f"
      [] OTHER -> c

ToUpper(c) ==
    CASE c = "a" -> "A" [] c = "b" -> "B" [] c = "c" -> "C"
      [] c = "d" -> "D" [] c = "e" -> "E" [] c = "f" -> "F"
      [] OTHER -> c

\* ObjectId(s) raises InvalidId (caught at main.py:122 as "400")
ObjectIdValid(s) ==
    /\ Len(s) = OidLen
    /\ \A i \in 1..Len(s) : s[i] \in LowerHex \cup UpperHex

\* the value of ObjectId(s), as its canonical (lower-case) hex rendering
ObjectId(s) == [i \in 1..Len(s) |-> ToLower(s[i])]

Digit == <<"1", "2", "3", "4", "5", "6", "7", "8", "9">>

\* the _id the store gives to the n-th hunter it inserts
HunterOid(n) == [i \in 1..OidLen |-> IF i = OidLen THEN Digit[n] ELSE "a"]

\* str(inserted_id)
OidStr(oid) == oid

\* db["hunter"].find_one({"_id": oid}): the position of the document, 0 if none
find_hunter(oid) ==
    IF \E n \in 1..Len(hunter) : HunterOid(n) = oid
    THEN CHOOSE n \in 1..Len(hunter) : HunterOid(n) = oid
    ELSE 0

(***************************************************************************)
(* Helpers (main.py:24-30).                                                *)
(***************************************************************************)
\* datetime.now(timezone.utc).date().isoformat()
today_str == now

RECURSIVE IsqrtIn(_, _, _)
\* the largest r in lo..hi with r*r <= n (lo*lo <= n is given)
IsqrtIn(n, lo, hi) ==
    IF lo >= hi THEN lo
    ELSE LET mid == (lo + hi + 1) \div 2
         IN  IF mid * mid <= n THEN IsqrtIn(n, mid, hi)
                               ELSE IsqrtIn(n, lo, mid - 1)

\* A mutant of next_level_exp: a linear progression, 100 * level.
next_level_exp_linear(level) == 100 * level

\* A mutant of next_level_exp: the level is halved in integers first, which
\* makes level 1 cost nothing and pairs of levels cost the same.
next_level_exp_halved(level) == 100 * (level \div 2)

\* int(100 * (level ** 1.5)) = floor(sqrt(10000 * level^3)); the float
\* result agrees with the exact one for every level in 1..2000.
next_level_exp(level) ==
    IsqrtIn(10000 * level * level * level, 100 * level, 100 * level * level)

\* A mutant of LevelLoop: "if" for "while", at most one level per call.
RECURSIVE LevelLoop(_, _, _)
LevelLoopOnce(level, new_exp, leveled_up) ==
    IF new_exp >= next_level_exp(level)
    THEN [level |-> level + 1, exp |-> new_exp - next_level_exp(level),
          leveled_up |-> TRUE]
    ELSE [level |-> level, exp |-> new_exp, leveled_up |-> leveled_up]

\* A mutant of LevelLoop: the loop counts up from level 1, not from the
\* hunter's level.
RECURSIVE LevelsFrom(_, _, _)
LevelsFrom(level, new_exp, leveled_up) ==
    IF new_exp >= next_level_exp(level)
    THEN LevelsFrom(level + 1, new_exp - next_level_exp(level), TRUE)
    ELSE [level |-> level, exp |-> new_exp, leveled_up |-> leveled_up]

LevelLoopFromOne(level, new_exp, leveled_up) ==
    LevelsFrom(1, new_exp, leveled_up)

\* the level up loop (main.py:152-156, 208-212, 310-314)
LevelLoop(level, new_exp, leveled_up) ==
    IF new_exp >= next_level_exp(level)
    THEN LevelLoop(level + 1, new_exp - next_level_exp(level), TRUE)
    ELSE [level |-> level, exp |-> new_exp, leveled_up |-> leveled_up]

\* int(x) of a float x = a / b (b > 0): truncation towards zero
TruncDiv(a, b) == IF a >= 0 THEN a \div b ELSE -((-a) \div b)

\* A mutant of AlreadyCheckedIn: the same-day test never succeeds.
AlreadyCheckedInNever(last_checkin, today) == FALSE

\* main.py:129-132: last_date == today
AlreadyCheckedIn(last_checkin, today) ==
    LET last_date == IF last_checkin # None THEN Some(last_checkin[1]) ELSE None
    IN  last_date = Some(today)

\* A mutant of CheckinStreak: any earlier check-in continues the streak.
CheckinStreakAnyGap(last_checkin, streak, clock) ==
    IF last_checkin # None THEN streak + 1 ELSE 1

\* main.py:141-144, clock being datetime.now(timezone.utc).date() at line 143
CheckinStreak(last_checkin, streak, clock) ==
    IF last_checkin # None /\ clock - last_checkin[1] = 1
    THEN streak + 1
    ELSE 1

\* main.py:147
StreakCap       == 20
CheckinBase     == 10
Min(a, b)       == IF a <= b THEN a ELSE b

\* A mutant of CheckinExpGain: the streak bonus is not capped.
CheckinExpGainUncapped(new_streak) == CheckinBase + new_streak

CheckinExpGain(new_streak) == CheckinBase + Min(new_streak, StreakCap)

\* A mutant of DiffMultHalves: every difficulty counts 1.0.
DiffMultHalvesFlat(difficulty) == 2

\* main.py:196-197: diff_mult as halves, int(minutes * diff_mult)
DiffMultHalves(difficulty) ==
    CASE difficulty = "easy"   -> 2
      [] difficulty = "normal" -> 3
      [] difficulty = "hard"   -> 4
      [] OTHER                 -> 3
WorkoutExpGain(minutes, difficulty) ==
    TruncDiv(minutes * DiffMultHalves(difficulty), 2)

\* main.py:39-43: LogWorkoutRequest.minutes is a plain int, any int passes
MinutesAccepted(minutes) == minutes \in Int

\* main.py:255-260
Catalog == { [title |-> "Do 100 Push-ups",        exp_reward |-> 75],
             [title |-> "Run 3 km",               exp_reward |-> 90],
             [title |-> "Stretch for 10 minutes", exp_reward |-> 40],
             [title |-> "Hold a 2-minute plank",  exp_reward |-> 60] }

\* A mutant of find_quest: the lookup never finds the stored quest.
find_quest_miss(u, d) == 0

\* db["quest"].find_one({"user_id": u, "date": d}): the first match, 0 if none
find_quest(u, d) ==
    LET hits == {i \in 1..Len(quest) : quest[i].user_id = u /\ quest[i].date = d}
    IN  IF hits = {} THEN 0
        ELSE CHOOSE i \in hits : \A j \in hits : i <= j

AddToBag(B, e) == B (+) SetToBag({e})

(***************************************************************************)
(* Request payloads the clients send.                                      *)
(***************************************************************************)
UpperStr(s) == [i \in 1..Len(s) |-> ToUpper(s[i])]

BadUserId     == <<"n", "o", "t", "-", "a", "n", "-", "i", "d">>
UnknownUserId == [i \in 1..OidLen |-> "f"]

UserIdInputs ==
    {OidStr(HunterOid(n)) : n \in 1..MaxHunters}
        \cup {UpperStr(OidStr(HunterOid(1))), BadUserId, UnknownUserId}

ValidUserIds == {OidStr(HunterOid(n)) : n \in 1..MaxHunters}

\* (user_id, minutes, difficulty) of a LogWorkoutRequest
WorkoutInputs ==
    (ValidUserIds \X { <<60, "normal">>, <<301, "hard">>,
                       <<0, "easy">>, <<-60, "beast">> })
        \cup ((UserIdInputs \ ValidUserIds) \X { <<60, "normal">> })

\* (user_id, date) of a CompleteQuestRequest; date is None or the ISO
\* string of a day
DateInputs == {None} \cup {Some(d) : d \in Days}
CompleteInputs ==
    (ValidUserIds \X DateInputs) \cup ((UserIdInputs \ ValidUserIds) \X {None})

NoReq  == [op |-> "none", user_id |-> <<>>, minutes |-> 0, difficulty |-> "",
           date |-> None]
NoLoc  == [none |-> TRUE]
NoResp == [status |-> 0, message |-> "", body |-> [none |-> TRUE]]

Request(op, user_id) == [NoReq EXCEPT !.op = op, !.user_id = user_id]

(***************************************************************************)
(* A request arrives in slot p (FastAPI calls the handler), the handler    *)
(* returns or raises HTTPException, or it goes on to its next store call.  *)
(***************************************************************************)
\* the slots are interchangeable: a request takes the first idle one
Receive(p, r) ==
    /\ pc[p] = "idle"
    /\ \A q \in Procs : q < p => pc[q] # "idle"
    /\ req' = [req EXCEPT ![p] = r]

Counted == nreq < MaxRequests /\ nreq' = nreq + 1

Reply(p, status, message, body) ==
    /\ pc' = [pc EXCEPT ![p] = "idle"]
    /\ loc' = [loc EXCEPT ![p] = NoLoc]
    /\ resp' = [resp EXCEPT ![p] =
                  [status |-> status, message |-> message, body |-> body]]

Goto(p, label, locals) ==
    /\ pc' = [pc EXCEPT ![p] = label]
    /\ loc' = [loc EXCEPT ![p] = locals]
    /\ resp' = [resp EXCEPT ![p] = NoResp]

Error(p, status, message) == Reply(p, status, message, [none |-> TRUE])

\* The store outlives the process (a MongoDB server, or Mongita's files on
\* disk, database.py:26-35): the service starts on what earlier runs left.
\* The stores it starts on here: an empty one, one holding a new hunter
\* (main.py:88-98), and one holding a new hunter and the quest it fetched
\* on day 0 under the id the service gave it (main.py:263-273).
FreshHunter == [level |-> 1, exp |-> 0, streak |-> 0, last_checkin |-> None]

FreshQuest(c) ==
    [user_id |-> OidStr(HunterOid(1)), date |-> 0, title |-> c.title,
     exp_reward |-> c.exp_reward, completed |-> FALSE]

\* the hunter document found, with its _id
HunterDoc(h) ==
    [_id |-> h, level |-> hunter[h].level, exp |-> hunter[h].exp,
     streak |-> hunter[h].streak, last_checkin |-> hunter[h].last_checkin]

(***************************************************************************)
(* POST /api/hunters (main.py:83-100)                                      *)
(***************************************************************************)
create_hunter(p) ==
    /\ Receive(p, Request("create_hunter", <<>>))
    /\ Len(hunter) < MaxHunters
    /\ UNCHANGED nreq
    /\ IF ~db
       THEN /\ Error(p, 500, "Database not configured")
            /\ UNCHANGED hunter
       ELSE /\ hunter' = Append(hunter, FreshHunter)
            /\ Reply(p, 200, "",
                   [id |-> OidStr(HunterOid(Len(hunter) + 1)), level |-> 1,
                    exp |-> 0, streak |-> 0, last_checkin |-> None])
    /\ UNCHANGED <<db, now, checkin, workout, quest, eng>>

RECURSIVE ExpOfLevels(_, _)
\* the experience used up by going from level a to level b
ExpOfLevels(a, b) ==
    IF a >= b THEN 0 ELSE next_level_exp(a) + ExpOfLevels(a + 1, b)

\* A mutant of SetLevelExp: the gain the handler computed is added to the
\* document as stored now (an atomic increment, normalised), instead of
\* overwriting it with the values computed from the document read.
SetLevelExpAtomic(doc, snapshot, level, new_exp) ==
    LET gain == new_exp + ExpOfLevels(snapshot.level, level) - snapshot.exp
        lv   == LevelLoop(doc.level, doc.exp + gain, FALSE)
    IN  [doc EXCEPT !.level = lv.level, !.exp = lv.exp]

\* update_one(..., {"$set": {"exp": new_exp, "level": level}}) on the stored
\* document doc; snapshot is the document the handler read (lines 214-217,
\* 316-319)
SetLevelExp(doc, snapshot, level, new_exp) ==
    [doc EXCEPT !.level = level, !.exp = new_exp]

(***************************************************************************)
(* POST /api/checkin (main.py:115-187)                                     *)
(***************************************************************************)
\* lines 117-138: find the hunter, read today, the same-day test
daily_checkin_find(p, user_id) ==
    /\ Receive(p, Request("checkin", user_id))
    /\ Counted
    /\ IF ~db THEN Error(p, 500, "Database not configured")
       ELSE IF ~ObjectIdValid(user_id) THEN Error(p, 400, "Invalid user id")
       ELSE LET h == find_hunter(ObjectId(user_id)) IN
            IF h = 0 THEN Error(p, 404, "Hunter not found")
            ELSE LET today == today_str IN
                 IF AlreadyCheckedIn(hunter[h].last_checkin, today)
                 THEN Reply(p, 200, "Already checked in today",
                            [streak |-> hunter[h].streak,
                             level |-> hunter[h].level, exp |-> hunter[h].exp])
                 ELSE Goto(p, "ci_streak",
                           [hunter |-> HunterDoc(h), today |-> today])
    /\ UNCHANGED <<db, now, store, eng>>

\* lines 140-156: the clock is read again for the gap, then the level up loop
daily_checkin_streak(p) ==
    /\ pc[p] = "ci_streak"
    /\ LET h          == loc[p].hunter
           new_streak == CheckinStreak(h.last_checkin, h.streak, now)
           exp_gain   == CheckinExpGain(new_streak)
           lv         == LevelLoop(h.level, h.exp + exp_gain, FALSE)
       IN  Goto(p, "ci_update",
                [hunter |-> h, today |-> loc[p].today,
                 new_streak |-> new_streak, exp_gain |-> exp_gain,
                 new_exp |-> lv.exp, level |-> lv.level,
                 leveled_up |-> lv.leveled_up])
    /\ UNCHANGED <<db, now, store, req, nreq, eng>>

\* lines 158-169: update_one on the hunter, last_checkin = now
daily_checkin_update(p) ==
    /\ pc[p] = "ci_update"
    /\ hunter' = [hunter EXCEPT ![loc[p].hunter._id] =
                     [SetLevelExp(@, loc[p].hunter, loc[p].level, loc[p].new_exp)
                        EXCEPT !.streak = loc[p].new_streak,
                               !.last_checkin = Some(now)]]
    /\ Goto(p, "ci_insert", loc[p])
    /\ UNCHANGED <<db, now, checkin, workout, quest, req, nreq, eng>>

\* lines 171-187: insert the Checkin record, return
daily_checkin_insert(p) ==
    /\ pc[p] = "ci_insert"
    /\ checkin' = AddToBag(checkin,
                     [user_id |-> req[p].user_id, date |-> loc[p].today,
                      streak_after |-> loc[p].new_streak])
    /\ Reply(p, 200, "Check-in complete",
             [exp_gain |-> loc[p].exp_gain, streak |-> loc[p].new_streak,
              level |-> loc[p].level, exp |-> loc[p].new_exp,
              leveled_up |-> loc[p].leveled_up])
    /\ UNCHANGED <<db, now, hunter, workout, quest, req, nreq, eng>>

(***************************************************************************)
(* POST /api/workouts (main.py:190-236)                                    *)
(***************************************************************************)
\* lines 39-43 (payload validation), 192-212: exp_gain, find, level up loop
log_workout_find(p, user_id, minutes, difficulty) ==
    /\ Receive(p, [Request("workout", user_id) EXCEPT
                      !.minutes = minutes, !.difficulty = difficulty])
    /\ Counted
    /\ IF ~MinutesAccepted(minutes) THEN Error(p, 422, "validation error")
       ELSE IF ~db THEN Error(p, 500, "Database not configured")
       ELSE LET exp_gain == WorkoutExpGain(minutes, difficulty) IN
            IF ~ObjectIdValid(user_id) THEN Error(p, 400, "Invalid user id")
            ELSE LET h == find_hunter(ObjectId(user_id)) IN
                 IF h = 0 THEN Error(p, 404, "Hunter not found")
                 ELSE LET lv == LevelLoop(hunter[h].level,
                                          hunter[h].exp + exp_gain, FALSE)
                      IN  Goto(p, "wo_update",
                               [hunter |-> HunterDoc(h), exp_gain |-> exp_gain,
                                new_exp |-> lv.exp, level |-> lv.level,
                                leveled_up |-> lv.leveled_up])
    /\ UNCHANGED <<db, now, store, eng>>

\* lines 214-217: update_one on the hunter
log_workout_update(p) ==
    /\ pc[p] = "wo_update"
    /\ hunter' = [hunter EXCEPT ![loc[p].hunter._id] =
                     SetLevelExp(@, loc[p].hunter, loc[p].level, loc[p].new_exp)]
    /\ Goto(p, "wo_insert", loc[p])
    /\ UNCHANGED <<db, now, checkin, workout, quest, req, nreq, eng>>

\* A mutant of log_workout_insert: the record's exp_awarded is the minutes.
log_workout_insert_minutes(p) ==
    /\ pc[p] = "wo_insert"
    /\ workout' = AddToBag(workout,
                     [user_id |-> req[p].user_id, minutes |-> req[p].minutes,
                      difficulty |-> req[p].difficulty,
                      exp_awarded |-> req[p].minutes])
    /\ Reply(p, 200, "Workout logged",
             [exp_gain |-> loc[p].exp_gain, level |-> loc[p].level,
              exp |-> loc[p].new_exp, leveled_up |-> loc[p].leveled_up])
    /\ UNCHANGED <<db, now, hunter, checkin, quest, req, nreq, eng>>

\* lines 219-236: insert the Workout record, return
log_workout_insert(p) ==
    /\ pc[p] = "wo_insert"
    /\ workout' = AddToBag(workout,
                     [user_id |-> req[p].user_id, minutes |-> req[p].minutes,
                      difficulty |-> req[p].difficulty,
                      exp_awarded |-> loc[p].exp_gain])
    /\ Reply(p, 200, "Workout logged",
             [exp_gain |-> loc[p].exp_gain, level |-> loc[p].level,
              exp |-> loc[p].new_exp, leveled_up |-> loc[p].leveled_up])
    /\ UNCHANGED <<db, now, hunter, checkin, quest, req, nreq, eng>>

(***************************************************************************)
(* GET /api/quests (main.py:239-278)                                       *)
(***************************************************************************)
QuestOut(i, q) ==
    [id |-> i, user_id |-> q.user_id, date |-> q.date, title |-> q.title,
     exp_reward |-> q.exp_reward, completed |-> q.completed]

\* A mutant of get_daily_quests_find: the hunter is not looked up.
get_daily_quests_find_nolookup(p, user_id) ==
    /\ Receive(p, Request("quests", user_id))
    /\ Counted
    /\ IF ~db THEN Error(p, 500, "Database not configured")
       ELSE IF ~ObjectIdValid(user_id) THEN Error(p, 400, "Invalid user id")
       ELSE LET today == today_str
                i     == find_quest(user_id, today)
            IN  IF i # 0 THEN Reply(p, 200, "", QuestOut(i, quest[i]))
                ELSE \E c \in Catalog :
                        Goto(p, "gq_insert",
                             [quest |-> [user_id |-> user_id, date |-> today,
                                         title |-> c.title,
                                         exp_reward |-> c.exp_reward,
                                         completed |-> FALSE]])
    /\ UNCHANGED <<db, now, store, eng>>

\* lines 241-272: find the hunter, find today's quest, else roll one.  The
\* two find_one calls are one step: the first only tests that the hunter
\* exists, and hunters are never deleted.
get_daily_quests_find(p, user_id) ==
    /\ Receive(p, Request("quests", user_id))
    /\ Counted
    /\ IF ~db THEN Error(p, 500, "Database not configured")
       ELSE IF ~ObjectIdValid(user_id) THEN Error(p, 400, "Invalid user id")
       ELSE IF find_hunter(ObjectId(user_id)) = 0
            THEN Error(p, 404, "Hunter not found")
       ELSE LET today == today_str
                i     == find_quest(user_id, today)
            IN  IF i # 0 THEN Reply(p, 200, "", QuestOut(i, quest[i]))
                ELSE \E c \in Catalog :     \* random.choice(base)
                        Goto(p, "gq_insert",
                             [quest |-> [user_id |-> user_id, date |-> today,
                                         title |-> c.title,
                                         exp_reward |-> c.exp_reward,
                                         completed |-> FALSE]])
    /\ UNCHANGED <<db, now, store, eng>>

\* A mutant of get_daily_quests_insert: the rolled quest replaces the
\* record stored under its (user_id, date), if there is one.
get_daily_quests_upsert(p) ==
    /\ pc[p] = "gq_insert"
    /\ LET i == find_quest(loc[p].quest.user_id, loc[p].quest.date)
       IN  IF i # 0
           THEN /\ quest' = [quest EXCEPT ![i] = loc[p].quest]
                /\ Reply(p, 200, "", QuestOut(i, loc[p].quest))
           ELSE /\ quest' = Append(quest, loc[p].quest)
                /\ Reply(p, 200, "", QuestOut(Len(quest) + 1, loc[p].quest))
    /\ UNCHANGED <<db, now, hunter, checkin, workout, req, nreq, eng>>

\* lines 273-278: insert the quest, return it with its new id
get_daily_quests_insert(p) ==
    /\ pc[p] = "gq_insert"
    /\ quest' = Append(quest, loc[p].quest)
    /\ Reply(p, 200, "", QuestOut(Len(quest) + 1, loc[p].quest))
    /\ UNCHANGED <<db, now, hunter, checkin, workout, req, nreq, eng>>

(***************************************************************************)
(* POST /api/quests/complete (main.py:281-327)                             *)
(***************************************************************************)
\* A mutant of QuestCompleted: the completed flag is not looked at.
QuestCompletedNever(q) == FALSE

\* line 290: quest.get("completed")
QuestCompleted(q) == q.completed

\* lines 283-291: find the quest by (user_id, date), the completed test
complete_quest_find(p, user_id, date) ==
    /\ Receive(p, [Request("complete", user_id) EXCEPT !.date = date])
    /\ Counted
    /\ IF ~db THEN Error(p, 500, "Database not configured")
       ELSE LET today == IF date # None THEN date[1] ELSE today_str
                i     == find_quest(user_id, today)
            IN  IF i = 0 THEN Error(p, 404, "Quest not found for today")
                ELSE IF QuestCompleted(quest[i])
                THEN Reply(p, 200, "Quest already completed",
                           [reward |-> quest[i].exp_reward])
                ELSE Goto(p, "cq_flag", [quest |-> QuestOut(i, quest[i])])
    /\ UNCHANGED <<db, now, store, eng>>

\* A mutant of complete_quest_flag: the completed flag is not persisted.
complete_quest_flag_skip(p) ==
    /\ pc[p] = "cq_flag"
    /\ Goto(p, "cq_hunter", loc[p])
    /\ UNCHANGED <<db, now, store, req, nreq, eng>>

\* lines 293-297: update_one on the quest, completed = True
complete_quest_flag(p) ==
    /\ pc[p] = "cq_flag"
    /\ quest' = [quest EXCEPT ![loc[p].quest.id].completed = TRUE]
    /\ Goto(p, "cq_hunter", loc[p])
    /\ UNCHANGED <<db, now, hunter, checkin, workout, req, nreq, eng>>

\* lines 299-314: find the hunter, level up loop
complete_quest_hunter(p) ==
    /\ pc[p] = "cq_hunter"
    /\ IF ~ObjectIdValid(req[p].user_id) THEN Error(p, 400, "Invalid user id")
       ELSE LET h == find_hunter(ObjectId(req[p].user_id)) IN
            IF h = 0 THEN Error(p, 404, "Hunter not found")
            ELSE LET reward == loc[p].quest.exp_reward
                     lv     == LevelLoop(hunter[h].level,
                                         hunter[h].exp + reward, FALSE)
                 IN  Goto(p, "cq_update",
                          [quest |-> loc[p].quest, hunter |-> HunterDoc(h),
                           reward |-> reward, new_exp |-> lv.exp,
                           level |-> lv.level, leveled_up |-> lv.leveled_up])
    /\ UNCHANGED <<db, now, store, req, nreq, eng>>

\* lines 316-327: update_one on the hunter, return
complete_quest_update(p) ==
    /\ pc[p] = "cq_update"
    /\ hunter' = [hunter EXCEPT ![loc[p].hunter._id] =
                     SetLevelExp(@, loc[p].hunter, loc[p].level, loc[p].new_exp)]
    /\ Reply(p, 200, "Quest completed",
             [reward |-> loc[p].reward, level |-> loc[p].level,
              exp |-> loc[p].new_exp, leveled_up |-> loc[p].leveled_up])
    /\ UNCHANGED <<db, now, checkin, workout, quest, req, nreq, eng>>

(***************************************************************************)
(* GET /api/profile (main.py:330-357); progress_pct is float arithmetic    *)
(* and is not part of the modelled body.                                   *)
(***************************************************************************)
get_profile(p, user_id) ==
    /\ Receive(p, Request("profile", user_id))
    /\ Counted
    /\ IF ~db THEN Error(p, 500, "Database not configured")
       ELSE IF ~ObjectIdValid(user_id) THEN Error(p, 400, "Invalid user id")
       ELSE LET h == find_hunter(ObjectId(user_id)) IN
            IF h = 0 THEN Error(p, 404, "Hunter not found")
            ELSE Reply(p, 200, "",
                       [id |-> OidStr(HunterOid(h)), level |-> hunter[h].level,
                        exp |-> hunter[h].exp,
                        exp_to_next |-> next_level_exp(hunter[h].level),
                        streak |-> hunter[h].streak])
    /\ UNCHANGED <<db, now, store, eng>>

\* UTC midnight passes
Tick ==
    /\ now < MaxDay
    /\ now' = now + 1
    /\ UNCHANGED <<db, store, slots, eng>>

(***************************************************************************)
(* The level up loop on its own (main.py:152-156), one iteration a step,   *)
(* from every start (level0, exp0) and gain delta of the input sets.       *)
(***************************************************************************)
EngOff == [pc |-> "off", level0 |-> 1, exp0 |-> 0, delta |-> 0,
           level |-> 1, new_exp |-> 0, leveled_up |-> FALSE]

DeltaInputs == {0, 1, 40, 60, 75, 90, 99, 100, 101, 281, 282, 283, 382,
                519, 602, 901, 1701, 2819}

EngStarts ==
    { [pc |-> "loop", level0 |-> l, exp0 |-> e, delta |-> d, level |-> l,
       new_exp |-> e + d, leveled_up |-> FALSE] :
         l \in 1..MaxEngLevel, e \in 0..(next_level_exp(MaxEngLevel) - 1),
         d \in DeltaInputs }

\* while new_exp >= next_level_exp(level): the body
eng_iterate ==
    /\ eng.pc = "loop"
    /\ eng.new_exp >= next_level_exp(eng.level)
    /\ eng' = [eng EXCEPT !.new_exp = @ - next_level_exp(eng.level),
                          !.level = @ + 1, !.leveled_up = TRUE]
    /\ UNCHANGED <<db, now, store, slots>>

\* the loop condition is false: the loop is left
eng_exit ==
    /\ eng.pc = "loop"
    /\ ~(eng.new_exp >= next_level_exp(eng.level))
    /\ eng' = [eng EXCEPT !.pc = "done"]
    /\ UNCHANGED <<db, now, store, slots>>

(***************************************************************************)
(* Specifications.                                                         *)
(***************************************************************************)
InitSlots ==
    /\ now = 0
    /\ pc = [p \in Procs |-> "idle"]
    /\ req = [p \in Procs |-> NoReq]
    /\ loc = [p \in Procs |-> NoLoc]
    /\ resp = [p \in Procs |-> NoResp]
    /\ nreq = 0

EmptyStore ==
    /\ hunter = <<>>
    /\ quest = <<>>
    /\ checkin = EmptyBag
    /\ workout = EmptyBag

\* database.py:18-43: db is a client's database, or None when no client
\* could be constructed
Init ==
    /\ InitSlots
    /\ eng = EngOff
    /\ \/ db = FALSE /\ EmptyStore
       \/ db = TRUE /\ EmptyStore
       \/ /\ db = TRUE
          /\ hunter = <<FreshHunter>>
          /\ quest \in {<<>>} \cup {<<FreshQuest(c)>> : c \in Catalog}
          /\ checkin = EmptyBag
          /\ workout = EmptyBag

Step(p) ==
    \/ create_hunter(p)
    \/ \E u \in UserIdInputs : daily_checkin_find(p, u)
    \/ daily_checkin_streak(p)
    \/ daily_checkin_update(p)
    \/ daily_checkin_insert(p)
    \/ \E w \in WorkoutInputs : log_workout_find(p, w[1], w[2][1], w[2][2])
    \/ log_workout_update(p)
    \/ log_workout_insert(p)
    \/ \E u \in UserIdInputs : get_daily_quests_find(p, u)
    \/ get_daily_quests_insert(p)
    \/ \E c \in CompleteInputs : complete_quest_find(p, c[1], c[2])
    \/ complete_quest_flag(p)
    \/ complete_quest_hunter(p)
    \/ complete_quest_update(p)
    \/ \E u \in UserIdInputs : get_profile(p, u)

\* requests handled independently, their store calls interleaved
Next == (\E p \in Procs : Step(p)) \/ Tick

Spec == Init /\ [][Next]_vars

\* requests handled one at a time: a single request slot
SeqNext == Step(1) \/ Tick

SeqSpec == Init /\ [][SeqNext]_vars

\* the level up loop alone
LevelInit ==
    /\ db = TRUE
    /\ InitSlots
    /\ EmptyStore
    /\ eng \in EngStarts

LevelNext == eng_iterate \/ eng_exit

LevelSpec == LevelInit /\ [][LevelNext]_vars

\* The loop is straight-line code of the thread running the handler: while
\* it has a next step it takes it.  The starts are those of LevelSpec with
\* exp0 a multiple of ExpStride.
LevelFairInit ==
    /\ db = TRUE
    /\ InitSlots
    /\ EmptyStore
    /\ eng \in {s \in EngStarts : s.exp0 % ExpStride = 0}

LevelFairSpec == LevelFairInit /\ [][LevelNext]_vars /\ WF_vars(LevelNext)

(***************************************************************************)
(* The check-in endpoint alone, on the store of a hunter who was created   *)
(* and then checked in once a day on each of the k days before day 0       *)
(* (days -k .. -1) and did nothing else.                                   *)
(***************************************************************************)
RECURSIVE VeteranAfter(_, _)
\* the hunter document after the first j of those k check-ins
\* (main.py:141-169 applied j times)
VeteranAfter(j, k) ==
    IF j = 0 THEN FreshHunter
    ELSE LET h          == VeteranAfter(j - 1, k)
             day        == j - k - 1
             new_streak == CheckinStreak(h.last_checkin, h.streak, day)
             lv         == LevelLoop(h.level,
                                     h.exp + CheckinExpGain(new_streak), FALSE)
         IN  [level |-> lv.level, exp |-> lv.exp, streak |-> new_streak,
              last_checkin |-> Some(day)]

\* the Checkin records those k check-ins inserted (main.py:172-178)
VeteranCheckins(k) ==
    SetToBag({ [user_id |-> OidStr(HunterOid(1)), date |-> j - k - 1,
                streak_after |-> VeteranAfter(j, k).streak] : j \in 1..k })

CheckinInit ==
    /\ InitSlots
    /\ eng = EngOff
    /\ db = TRUE
    /\ quest = <<>>
    /\ workout = EmptyBag
    /\ \E k \in {0} \cup (MinStreak0..MaxStreak0) :
          /\ hunter = <<VeteranAfter(k, k)>>
          /\ checkin = VeteranCheckins(k)

\* the user_id strings sent: the hunter's id, its upper-case spelling, and
\* one that is no id
CheckinUserIds ==
    {OidStr(HunterOid(1)), UpperStr(OidStr(HunterOid(1))), BadUserId}

CheckinNext ==
    \/ \E p \in Procs :
          \/ \E u \in CheckinUserIds : daily_checkin_find(p, u)
          \/ daily_checkin_streak(p)
          \/ daily_checkin_update(p)
          \/ daily_checkin_insert(p)
    \/ Tick

CheckinSpec == CheckinInit /\ [][CheckinNext]_vars

(***************************************************************************)
(* The properties.                                                         *)
(***************************************************************************)
\* required(level) = floor(100 * level^1.5), as the specification tabulates
\* it: required(1) = 100, required(2) = 282, ...
RequiredTable == <<100, 282, 519, 800, 1118, 1469, 1852, 2262, 2700, 3162>>
Required(level) == RequiredTable[level]

RECURSIVE SumRequired(_, _)
\* the sum of required(L) for L in a..b
SumRequired(a, b) == IF a > b THEN 0 ELSE Required(a) + SumRequired(a + 1, b)

\* the experience a hunter document stands for: exp plus every level passed
TotalExp(doc) == doc.exp + SumRequired(1, doc.level - 1)

Hunters == 1..Len(hunter)

\* the hunter a user_id string denotes (0: none, or the string is no id)
HunterOf(user_id) ==
    IF ObjectIdValid(user_id) THEN find_hunter(ObjectId(user_id)) ELSE 0

\* C1: in every reachable state, with the store calls of the requests
\* interleaved, every hunter's stored exp is strictly less than
\* required(level) of its stored level.
C1_ExpBelowRequired ==
    \A h \in Hunters : hunter[h].exp < Required(hunter[h].level)

\* C1 witness: a hunter that went up several levels in one request, with
\* the workout that did it on record.
C1_Witness ==
    /\ \E h \in Hunters : hunter[h].level >= 3 /\ hunter[h].exp > 0
    /\ BagCardinality(workout) > 0

\* C2 (as claimed): a log-workout request whose minutes is not in 1..300 is
\* rejected before the handler runs: it is never on its way to a hunter
\* update, it is never answered 200, and no Workout record carries such
\* minutes.
C2_OutOfRangeRejected ==
    /\ \A p \in Procs :
          (req[p].op = "workout" /\ req[p].minutes \notin 1..300)
             => /\ pc[p] = "idle"
                /\ resp[p].status # 200
    /\ \A w \in BagToSet(workout) : w.minutes \in 1..300

\* C3: requests one at a time; a check-in for a hunter whose last_checkin
\* is on the current UTC day answers "Already checked in today" with the
\* stored streak, level and exp, and leaves hunter and checkin collections
\* as they were.
C3_SameDayNoChange ==
    [][ LET u == req'[1].user_id
            h == HunterOf(u)
        IN  ( /\ pc[1] = "idle" /\ nreq' = nreq + 1
              /\ req'[1].op = "checkin"
              /\ db
              /\ h # 0
              /\ hunter[h].last_checkin = Some(now) )
            => /\ pc'[1] = "idle"
               /\ resp'[1].status = 200
               /\ resp'[1].message = "Already checked in today"
               /\ resp'[1].body = [streak |-> hunter[h].streak,
                                   level |-> hunter[h].level,
                                   exp |-> hunter[h].exp]
               /\ hunter' = hunter
               /\ checkin' = checkin
      ]_vars

\* C3 witness: the second check-in of a day has been answered, one Checkin
\* record exists.
C3_Witness ==
    /\ pc[1] = "idle"
    /\ resp[1].message = "Already checked in today"
    /\ BagCardinality(checkin) = 1
    /\ \E h \in Hunters : hunter[h].streak = 1 /\ hunter[h].exp = 11

\* C4: requests one at a time; completing a quest (user_id, date) that is
\* already completed answers "Quest already completed" with the stored
\* exp_reward and changes neither the hunters nor the quests.
C4_SecondCompleteNoAward ==
    [][ LET u == req'[1].user_id
            d == IF req'[1].date # None THEN req'[1].date[1] ELSE now
            i == find_quest(u, d)
        IN  ( /\ pc[1] = "idle" /\ nreq' = nreq + 1
              /\ req'[1].op = "complete"
              /\ db
              /\ i # 0
              /\ quest[i].completed )
            => /\ pc'[1] = "idle"
               /\ resp'[1].status = 200
               /\ resp'[1].message = "Quest already completed"
               /\ resp'[1].body = [reward |-> quest[i].exp_reward]
               /\ hunter' = hunter
               /\ quest' = quest
      ]_vars

\* C4 witness: a quest was completed and awarded once, and the second
\* completion has been answered.
C4_Witness ==
    /\ pc[1] = "idle"
    /\ resp[1].message = "Quest already completed"
    /\ \E i \in 1..Len(quest) :
          /\ quest[i].completed
          /\ resp[1].body.reward = quest[i].exp_reward
          /\ \E h \in Hunters : TotalExp(hunter[h]) = quest[i].exp_reward

\* the step in which slot p writes level and exp of a hunter
UpdateStep(p) ==
    /\ pc[p] \in {"ci_update", "wo_update", "cq_update"}
    /\ pc'[p] # pc[p]

\* the experience the request in slot p (at its update) awards
GainOf(p) == IF pc[p] = "cq_update" THEN loc[p].reward ELSE loc[p].exp_gain

\* C5: the hunter update is a read followed by an unconditional write: the
\* experience stored by a request's write is the experience it read plus
\* its own gain, whatever other requests stored in between, so an update
\* made between the read and the write is lost.
C5_LastWriterWins ==
    [][ \A p \in Procs :
           UpdateStep(p) =>
              TotalExp(hunter'[loc[p].hunter._id])
                 = TotalExp(loc[p].hunter) + GainOf(p)
      ]_vars

\* C5 witness: only two requests were made, workouts for the same hunter,
\* both answered "Workout logged" with a positive gain, and the hunter
\* holds the gain of one of them only.
C5_Witness ==
    /\ nreq = 2
    /\ pc[1] = "idle" /\ pc[2] = "idle"
    /\ resp[1].message = "Workout logged" /\ resp[2].message = "Workout logged"
    /\ resp[1].body.exp_gain > 0 /\ resp[2].body.exp_gain > 0
    /\ HunterOf(req[1].user_id) = 1 /\ HunterOf(req[2].user_id) = 1
    /\ BagCardinality(workout) = 2
    /\ TotalExp(hunter[1]) = resp[2].body.exp_gain
    /\ TotalExp(hunter[1]) < resp[1].body.exp_gain + resp[2].body.exp_gain

\* C6: a completion that read completed = false goes on to the award
\* whatever other completions did meanwhile: its answer is "Quest completed"
\* with the quest's stored reward, the quest is completed by then, and the
\* reward is added to the experience the request read.
C6_EveryReaderAwards ==
    [][ \A p \in Procs :
           (pc[p] = "cq_update" /\ pc'[p] # pc[p])
              => LET q == quest[loc[p].quest.id]
                 IN  /\ ~loc[p].quest.completed
                     /\ q.completed
                     /\ resp'[p].status = 200
                     /\ resp'[p].message = "Quest completed"
                     /\ resp'[p].body.reward = q.exp_reward
                     /\ TotalExp(hunter'[loc[p].hunter._id])
                           = TotalExp(loc[p].hunter) + q.exp_reward
      ]_vars

\* C6 witness: the only two requests made are completions of the one quest
\* in the store; both are answered "Quest completed" and the hunter holds
\* the reward twice.
C6_Witness ==
    /\ nreq = 2
    /\ Len(quest) = 1
    /\ pc[1] = "idle" /\ pc[2] = "idle"
    /\ req[1].op = "complete" /\ req[2].op = "complete"
    /\ req[1].user_id = req[2].user_id /\ req[1].date = req[2].date
    /\ resp[1].message = "Quest completed" /\ resp[2].message = "Quest completed"
    /\ resp[1].body.reward = quest[1].exp_reward
    /\ resp[2].body.reward = quest[1].exp_reward
    /\ TotalExp(hunter[1]) = 2 * quest[1].exp_reward

\* C7: requests one at a time; on a check-in that is not a same-day repeat
\* the new streak is old streak + 1 when the previous check-in date is one
\* day before the day the clock shows when the gap is taken (main.py:143),
\* and 1 when there is no previous check-in or the gap is larger; that
\* streak is what is persisted on the hunter and what is returned.
C7_StreakRule ==
    [][ /\ (pc[1] = "ci_streak" /\ pc'[1] # pc[1])
           => LET h == loc[1].hunter
                  s == loc'[1].new_streak
              IN  /\ h.last_checkin = None => s = 1
                  /\ h.last_checkin # None
                       => /\ now - h.last_checkin[1] >= 1
                          /\ now - h.last_checkin[1] = 1 => s = h.streak + 1
                          /\ now - h.last_checkin[1] > 1 => s = 1
        /\ (pc[1] = "ci_update" /\ pc'[1] # pc[1])
           => /\ loc'[1].new_streak = loc[1].new_streak
              /\ hunter'[loc[1].hunter._id].streak = loc[1].new_streak
        /\ (pc[1] = "ci_insert" /\ pc'[1] # pc[1])
           => /\ resp'[1].message = "Check-in complete"
              /\ resp'[1].body.streak = loc[1].new_streak
              /\ hunter'[loc[1].hunter._id].streak = loc[1].new_streak
      ]_vars

\* C7 witness: a check-in the day after the previous one has been answered
\* with streak 2, which the hunter holds.
C7_Witness ==
    /\ pc[1] = "idle"
    /\ resp[1].message = "Check-in complete"
    /\ resp[1].body.streak = 2
    /\ \E h \in Hunters : hunter[h].streak = 2 /\ hunter[h].last_checkin = Some(now)
    /\ BagCardinality(checkin) = 2

\* the slot a request arriving in this step is handled in
Receiving(p) ==
    /\ pc[p] = "idle"
    /\ \A q \in Procs : q < p => pc[q] # "idle"
    /\ nreq' = nreq + 1

\* C8 (as claimed): with the store available, a request of any endpoint
\* taking a user_id whose user_id does not parse into an ObjectId is
\* answered 400 and leaves the store unchanged.
C8_BadIdIs400 ==
    [][ \A p \in Procs :
           ( /\ Receiving(p)
             /\ db
             /\ req'[p].op \in {"checkin", "workout", "quests", "complete",
                                "profile"}
             /\ ~ObjectIdValid(req'[p].user_id) )
           => /\ pc'[p] = "idle"
              /\ resp'[p].status = 400
              /\ store' = store
      ]_vars

\* C9 (as claimed): in every reachable state, store calls interleaved,
\* there is at most one Checkin record per (user_id, date).
C9_OneCheckinPerDay ==
    \A c \in BagToSet(checkin) :
       /\ CopiesIn(c, checkin) = 1
       /\ \A e \in BagToSet(checkin) :
             (e.user_id = c.user_id /\ e.date = c.date) => e = c

\* C10: the level up loop, started at level >= 1 with exp in
\* [0, required(level)) and delta >= 0, ends with exp in
\* [0, required(new level)), with exp + delta = new exp + the sum of
\* required(L) over the levels passed, and with leveled_up true iff the
\* level rose; the handlers' loop gives the same result.
C10_Conservation ==
    (eng.pc = "done" /\ eng.exp0 < Required(eng.level0))
       => /\ 0 <= eng.new_exp
          /\ eng.new_exp < Required(eng.level)
          /\ eng.exp0 + eng.delta
                = eng.new_exp + SumRequired(eng.level0, eng.level - 1)
          /\ eng.leveled_up <=> (eng.level > eng.level0)
          /\ LevelLoop(eng.level0, eng.exp0 + eng.delta, FALSE)
                = [level |-> eng.level, exp |-> eng.new_exp,
                   leveled_up |-> eng.leveled_up]

\* C10 witness: a run of the loop that passed at least two levels.
C10_Witness ==
    /\ eng.pc = "done"
    /\ eng.exp0 < Required(eng.level0)
    /\ eng.level >= eng.level0 + 2
    /\ eng.leveled_up

\* the quests stored under the key (user_id, date)
QuestsFor(u, d) ==
    {i \in 1..Len(quest) : quest[i].user_id = u /\ quest[i].date = d}

\* C11: requests one at a time; a quest fetch for an existing hunter either
\* finds no quest stored for (user_id, today), and then rolls one from the
\* catalog and inserts exactly that one record, completed = false, under a
\* key no other record has, returning it with its new id; or it finds the
\* one quest stored for (user_id, today) and returns that record (its id,
\* title, exp_reward) without inserting or changing any Quest record.
C11_FetchIdempotent ==
    [][ /\ ( /\ pc[1] = "idle" /\ nreq' = nreq + 1
             /\ req'[1].op = "quests"
             /\ db
             /\ HunterOf(req'[1].user_id) # 0 )
           => LET hits == QuestsFor(req'[1].user_id, now)
              IN  /\ Cardinality(hits) <= 1
                  /\ quest' = quest
                  /\ hits = {} => pc'[1] = "gq_insert"
                  /\ \A i \in hits :
                        /\ pc'[1] = "idle"
                        /\ resp'[1].status = 200
                        /\ resp'[1].body.id = i
                        /\ resp'[1].body.title = quest[i].title
                        /\ resp'[1].body.exp_reward = quest[i].exp_reward
                        /\ resp'[1].body.completed = quest[i].completed
        /\ (pc[1] = "gq_insert" /\ pc'[1] # pc[1])
           => LET q == loc[1].quest
              IN  /\ QuestsFor(q.user_id, q.date) = {}
                  /\ q.user_id = req[1].user_id
                  /\ q.date <= now
                  /\ ~q.completed
                  /\ [title |-> q.title, exp_reward |-> q.exp_reward]
                        \in Catalog
                  /\ quest' = Append(quest, q)
                  /\ resp'[1].status = 200
                  /\ resp'[1].body.id = Len(quest) + 1
                  /\ resp'[1].body.title = q.title
                  /\ resp'[1].body.exp_reward = q.exp_reward
                  /\ resp'[1].body.completed = FALSE
      ]_vars

\* C11 witness: a fetch was answered with the one stored quest of that
\* user and day after the quest was completed: the answer carries
\* completed = true, which no newly rolled quest does.
C11_Witness ==
    /\ pc[1] = "idle"
    /\ req[1].op = "quests"
    /\ resp[1].status = 200
    /\ Len(quest) = 1
    /\ resp[1].body.id = 1
    /\ resp[1].body.title = quest[1].title
    /\ resp[1].body.completed
    /\ quest[1].date = now

\* C12 (as claimed): in every reachable state, store calls interleaved,
\* there is at most one Quest record per (user_id, date).
C12_OneQuestPerDay ==
    \A i \in 1..Len(quest) :
       Cardinality(QuestsFor(quest[i].user_id, quest[i].date)) = 1

\* C13 (as claimed): in every reachable state every hunter has level >= 1,
\* exp >= 0 and streak >= 0, and every Workout record has exp_awarded >= 0.
C13_NonNegative ==
    /\ \A h \in Hunters :
          /\ hunter[h].level >= 1
          /\ hunter[h].exp >= 0
          /\ hunter[h].streak >= 0
    /\ \A w \in BagToSet(workout) : w.exp_awarded >= 0

\* C14: requests one at a time; a 60-minute "normal" workout logged for a
\* hunter stored at level 1, exp 0 is answered exp_gain 90, level 1, exp 90,
\* leveled_up false, and one logged for a hunter stored at level 1, exp 90
\* is answered exp_gain 90, level 2, exp 80, leveled_up true; the stored
\* hunter has the returned level and exp.
C14_WorkoutExample ==
    [][ ( /\ pc[1] = "wo_insert" /\ pc'[1] # pc[1]
          /\ req[1].minutes = 60 /\ req[1].difficulty = "normal"
          /\ loc[1].hunter.level = 1 )
        => LET h == loc[1].hunter._id
           IN  /\ resp'[1].status = 200
               /\ hunter'[h].level = resp'[1].body.level
               /\ hunter'[h].exp = resp'[1].body.exp
               /\ loc[1].hunter.exp = 0
                    => resp'[1].body = [exp_gain |-> 90, level |-> 1,
                                        exp |-> 90, leveled_up |-> FALSE]
               /\ loc[1].hunter.exp = 90
                    => resp'[1].body = [exp_gain |-> 90, level |-> 2,
                                        exp |-> 80, leveled_up |-> TRUE]
      ]_vars

\* C14 witness: the second of two 60-minute "normal" workouts of a new
\* hunter has been answered, the hunter is stored at level 2, exp 80.
C14_Witness ==
    /\ nreq = 2
    /\ pc[1] = "idle"
    /\ req[1].op = "workout"
    /\ resp[1].message = "Workout logged"
    /\ resp[1].body = [exp_gain |-> 90, level |-> 2, exp |-> 80,
                       leveled_up |-> TRUE]
    /\ hunter[1].level = 2 /\ hunter[1].exp = 80
    /\ \E w \in BagToSet(workout) :
          /\ w.minutes = 60 /\ w.difficulty = "normal" /\ w.exp_awarded = 90
          /\ CopiesIn(w, workout) = 2

\* C15: with the store calls of the requests interleaved, no step removes
\* a Quest record, changes the title, exp_reward, user_id or date of one,
\* or takes the completed flag of one from true back to false.
C15_QuestMonotone ==
    [][ /\ Len(quest') >= Len(quest)
        /\ \A i \in 1..Len(quest) :
              /\ quest'[i].title = quest[i].title
              /\ quest'[i].exp_reward = quest[i].exp_reward
              /\ quest'[i].user_id = quest[i].user_id
              /\ quest'[i].date = quest[i].date
              /\ quest[i].completed => quest'[i].completed
      ]_vars

\* C15 witness: a quest completed on its day is still stored completed on
\* a later day, next to the quest fetched on that later day.
C15_Witness ==
    /\ Len(quest) = 2
    /\ quest[1].completed /\ quest[1].date < now
    /\ ~quest[2].completed /\ quest[2].date = now
    /\ quest[1].user_id = quest[2].user_id
    /\ TotalExp(hunter[1]) = quest[1].exp_reward

\* C16: the level up loop, started at any level >= 1 with any exp >= 0 and
\* any delta >= 0, is left after finitely many iterations: required(1) is
\* 100, and every iteration subtracts required(level) > 0 from the
\* remaining exp, which stays >= 0, and moves to a level whose requirement
\* is strictly larger.
C16_LoopTerminates ==
    /\ <>(eng.pc = "done")
    /\ [][ (eng.pc = "loop" /\ eng'.pc = "loop")
             => /\ Required(1) = 100
                /\ Required(eng.level) > 0
                /\ eng'.level = eng.level + 1
                /\ eng'.new_exp = eng.new_exp - Required(eng.level)
                /\ eng'.new_exp < eng.new_exp
                /\ eng'.new_exp >= 0
                /\ Required(eng'.level) > Required(eng.level)
          ]_vars

\* C16 witness: the loop was left after at least three iterations on a
\* start whose exp was not below the requirement of its level.
C16_Witness ==
    /\ eng.pc = "done"
    /\ eng.exp0 >= Required(eng.level0)
    /\ eng.level >= eng.level0 + 3
    /\ eng.new_exp < Required(eng.level)

\* the gain of a check-in that makes the streak s, as the specification
\* gives it: 10 + min(s, 20)
CheckinGain(s) == IF s <= 20 THEN 10 + s ELSE 30

\* C17: every check-in that is not a same-day repeat computes
\* exp_gain = 10 + min(new_streak, 20), which lies in 11..30; its hunter
\* update adds that gain to the experience it read and persists the new
\* streak; the Checkin record it then inserts has streak_after equal to
\* that streak, and the answer carries that gain and streak.
C17_CheckinGain ==
    [][ \A p \in Procs :
          /\ (pc[p] = "ci_streak" /\ pc'[p] # pc[p])
             => /\ loc'[p].new_streak >= 1
                /\ loc'[p].exp_gain = CheckinGain(loc'[p].new_streak)
                /\ loc'[p].exp_gain \in 11..30
          /\ (pc[p] = "ci_update" /\ pc'[p] # pc[p])
             => LET h == loc[p].hunter._id
                IN  /\ loc'[p] = loc[p]
                    /\ hunter'[h].streak = loc[p].new_streak
                    /\ TotalExp(hunter'[h])
                          = TotalExp(loc[p].hunter)
                               + CheckinGain(loc[p].new_streak)
          /\ (pc[p] = "ci_insert" /\ pc'[p] # pc[p])
             => /\ \E c \in BagToSet(checkin') :
                      /\ c.user_id = req[p].user_id
                      /\ c.streak_after = loc[p].new_streak
                      /\ checkin' = AddToBag(checkin, c)
                /\ resp'[p].message = "Check-in complete"
                /\ resp'[p].body.streak = loc[p].new_streak
                /\ resp'[p].body.exp_gain = CheckinGain(loc[p].new_streak)
      ]_vars

\* C17 witness: a check-in that took the streak past 20 has been answered
\* with exp_gain 30; the hunter holds that streak and the Checkin record of
\* that day carries it.
C17_Witness ==
    \E p \in Procs :
       /\ pc[p] = "idle"
       /\ resp[p].message = "Check-in complete"
       /\ resp[p].body.streak > 20
       /\ resp[p].body.exp_gain = 30
       /\ hunter[1].streak = resp[p].body.streak
       /\ \E c \in BagToSet(checkin) :
             /\ c.streak_after = resp[p].body.streak
             /\ Some(c.date) = hunter[1].last_checkin

\* C18: in every reachable state, store calls interleaved, the user_id of
\* every Workout, Quest and Checkin record denotes an existing hunter, and
\* so does the user_id of every completion that found its quest: no
\* completion is answered "Invalid user id" or "Hunter not found".
C18_ReferentialIntegrity ==
    /\ \A w \in BagToSet(workout) : HunterOf(w.user_id) \in Hunters
    /\ \A c \in BagToSet(checkin) : HunterOf(c.user_id) \in Hunters
    /\ \A i \in 1..Len(quest) : HunterOf(quest[i].user_id) \in Hunters
    /\ \A p \in Procs :
          /\ pc[p] \in {"cq_flag", "cq_hunter", "cq_update"}
                => HunterOf(req[p].user_id) \in Hunters
          /\ (req[p].op = "complete" /\ pc[p] = "idle")
                => resp[p].message \notin {"Invalid user id", "Hunter not found"}

\* C18 witness: a completion sent under the upper-case spelling of a
\* hunter's id has set the completed flag of the quest stored under that
\* spelling and has found the hunter.
C18_Witness ==
    \E p \in Procs :
       /\ pc[p] = "cq_update"
       /\ req[p].user_id = UpperStr(OidStr(HunterOid(1)))
       /\ quest[loc[p].quest.id].completed
       /\ quest[loc[p].quest.id].user_id = req[p].user_id
       /\ loc[p].hunter._id = 1

\* C19: requests one at a time; no step lowers the stored level of a
\* hunter, whatever check-in, log-workout and complete-quest requests are
\* made (a workout of negative gain included), and no hunter is removed.
C19_LevelNeverDecreases ==
    [][ /\ Len(hunter') >= Len(hunter)
        /\ \A h \in Hunters : hunter'[h].level >= hunter[h].level
      ]_vars

\* C19 witness: a hunter who went up to level 3 has since logged a workout
\* of negative gain, and is still stored at level 3.
C19_Witness ==
    /\ nreq = 2
    /\ pc[1] = "idle"
    /\ resp[1].message = "Workout logged"
    /\ resp[1].body.exp_gain < 0
    /\ hunter[1].level = 3
    /\ resp[1].body.level = 3
    /\ BagCardinality(workout) = 2

RECURSIVE SumFn(_)
\* the sum of the values of a function of finite domain
SumFn(f) ==
    IF DOMAIN f = {} THEN 0
    ELSE LET x == CHOOSE x \in DOMAIN f : TRUE
         IN  f[x] + SumFn([y \in DOMAIN f \ {x} |-> f[y]])

\* the sum of exp_awarded over the Workout records of hunter h
WorkoutExp(h) ==
    LET mine == {w \in BagToSet(workout) : HunterOf(w.user_id) = h}
    IN  SumFn([w \in mine |-> CopiesIn(w, workout) * w.exp_awarded])

\* the sum of the gains of the check-ins recorded for hunter h
CheckinExp(h) ==
    LET mine == {c \in BagToSet(checkin) : HunterOf(c.user_id) = h}
    IN  SumFn([c \in mine |->
                  CopiesIn(c, checkin) * CheckinGain(c.streak_after)])

\* the sum of exp_reward over the completed quests of hunter h
QuestExp(h) ==
    LET mine == {i \in 1..Len(quest) :
                    quest[i].completed /\ HunterOf(quest[i].user_id) = h}
    IN  SumFn([i \in mine |-> quest[i].exp_reward])

\* C20: requests one at a time; whenever no request is being handled,
\* every hunter's cumulative experience (stored exp plus required(L) for
\* every L from 1 to level - 1) is the sum of exp_awarded over the
\* hunter's Workout records, plus the gain of every check-in recorded for
\* the hunter, plus the exp_reward of each of the hunter's completed quests.
C20_ExpConserved ==
    pc[1] = "idle"
       => \A h \in Hunters :
             TotalExp(hunter[h]) = WorkoutExp(h) + CheckinExp(h) + QuestExp(h)

\* C20 witness: a hunter has logged a workout under the upper-case
\* spelling of their id and completed a quest, and holds both gains.
C20_Witness ==
    /\ nreq = 2
    /\ pc[1] = "idle"
    /\ \E w \in BagToSet(workout) :
          /\ w.user_id = UpperStr(OidStr(HunterOid(1)))
          /\ w.exp_awarded = 90
    /\ Len(quest) = 1 /\ quest[1].completed
    /\ TotalExp(hunter[1]) = 90 + quest[1].exp_reward

====
